---- MODULE Spec2Model ----
(***************************************************************************)
(* P2PEarthquakeService (backend/p2p_earthquake_service.py): the WebSocket *)
(* monitor loop, the callback registry, the in-memory history with its     *)
(* latest-by-code map, the facade queries and the rate-limited HTTP client.*)
(* Next to it, from backend/main.py, the /api/p2p routes and the /ws       *)
(* broadcast, and from backend/amedas_scheduler.py the update scheduler.   *)
(*                                                                         *)
(* Everything runs on one asyncio event loop, so the code between two      *)
(* awaits is atomic.  The variable "running" names the monitor loop that   *)
(* holds the event loop in the middle of a synchronous section (between    *)
(* two handler invocations of one dispatch); every other coroutine may     *)
(* step only when running = 0, that is, at an await point.                 *)
(***************************************************************************)
EXTENDS Integers, Sequences, FiniteSets, TLC

\* ---------------------------------------------------------------- bounds
\* The history cap of lines 567-568 is 1000 in the source; the model keeps
\* the same append-then-trim code with a cap small enough to reach eviction.
HistoryCap == 2
\* Number of frames the feed sends: enough to overflow the history.
MaxFrames == HistoryCap + 1
\* Number of register_callback calls.
MaxCallbacks == 2
\* Frames a connection buffers while its loop is busy.
MaxInbox == 1
\* Largest limit argument tried on the facade queries.
MaxLimit == 3
\* Coroutines that call the HTTP client, requests they make in all, and the
\* last tick of the event-loop clock.
MaxCallers == 2
MaxRequests == 3
MaxTime == 6
\* Items in the body of a list response.
MaxItems == 2
\* Largest maxScale an earthquake carries (the table of labels ends at 70).
MaxScale == 71
\* Clients of the /ws endpoint.
MaxClients == 3
\* update_loop tasks the scheduler may create, and fetch_and_store calls.
MaxTasks == 2
MaxUpdates == 3

\* ------------------------------------------------------------- constants
None == "None"
\* The coroutines of a first and of a second start_websocket_monitoring()
\* call.
Loops == {1, 2}

\* InformationCode enum
JMA_QUAKE == 551
JMA_TSUNAMI == 552
EEW_DETECTION == 554
AREA_PEERS == 555
EEW == 556
USER_QUAKE == 561
USER_QUAKE_EVALUATION == 9611
KnownCodes ==
    {JMA_QUAKE, JMA_TSUNAMI, EEW_DETECTION, AREA_PEERS, EEW, USER_QUAKE,
     USER_QUAKE_EVALUATION}

\* "no message": the None of Optional[P2PEarthquakeInfo]
NoMsg == [code |-> 0, id |-> None, cancelled |-> FALSE]

\* P2PAPIConfig.enable_websocket
enable_websocket == TRUE
\* P2PAPIConfig.rate_limit_delay (1.0 s), in clock ticks of half a second
rate_limit_delay == 2

Callers == 1..MaxCallers
\* The WebSocket objects of the /ws endpoint, one for each connection.
Clients == 1..MaxClients
\* The tasks AMeDASScheduler.start may create.
Tasks == 1..MaxTasks
\* the HTTP client methods
Methods ==
    {"get_history", "get_jma_quakes", "get_jma_quake_by_id",
     "get_jma_tsunamis", "get_jma_tsunami_by_id"}

\* Fields a payload must carry to validate as the pydantic model of its
\* code (the Field(...) entries of the class and of BasicData).
RequiredFields(code) ==
    CASE code = JMA_QUAKE -> {"code", "time", "issue", "earthquake"}
      [] code = JMA_TSUNAMI -> {"code", "time", "cancelled", "issue"}
      [] code = AREA_PEERS -> {"code", "time", "areas"}
      [] code = EEW_DETECTION -> {"code", "time", "type"}
      [] code = EEW -> {"code", "time", "issue", "cancelled"}
      [] code = USER_QUAKE -> {"code", "time", "area"}
      [] code = USER_QUAKE_EVALUATION -> {"code", "time", "count", "confidence"}
      [] OTHER -> {}

\* The class _parse_response_data instantiates for a code.
ClassOf(code) ==
    CASE code = JMA_QUAKE -> "JMAQuake"
      [] code = JMA_TSUNAMI -> "JMATsunami"
      [] code = AREA_PEERS -> "Areapeers"
      [] code = EEW_DETECTION -> "EEWDetection"
      [] code = EEW -> "EEW"
      [] code = USER_QUAKE -> "Userquake"
      [] code = USER_QUAKE_EVALUATION -> "UserquakeEvaluation"
      [] OTHER -> None

\* The frames the feed may send: an earthquake, a tsunami forecast and its
\* cancellation (same id), an unknown code, a JSON object without "code"
\* (code 0), an earthquake without its required fields, and a frame that
\* json.loads rejects.
FramePayloads ==
    { [json |-> TRUE, code |-> JMA_QUAKE, id |-> "q1", cancelled |-> FALSE,
       fields |-> {"code", "time", "issue", "earthquake"}],
      [json |-> TRUE, code |-> JMA_TSUNAMI, id |-> "t1", cancelled |-> FALSE,
       fields |-> {"code", "time", "cancelled", "issue"}],
      [json |-> TRUE, code |-> JMA_TSUNAMI, id |-> "t1", cancelled |-> TRUE,
       fields |-> {"code", "time", "cancelled", "issue"}],
      [json |-> TRUE, code |-> 999, id |-> "x1", cancelled |-> FALSE,
       fields |-> {"code", "time", "issue", "earthquake"}],
      [json |-> TRUE, code |-> 0, id |-> "x2", cancelled |-> FALSE,
       fields |-> {"time"}],
      [json |-> TRUE, code |-> JMA_QUAKE, id |-> "q2", cancelled |-> FALSE,
       fields |-> {"code", "time"}],
      [json |-> FALSE, code |-> 0, id |-> "x3", cancelled |-> FALSE,
       fields |-> {}] }

\* Every code a frame may carry: the keys latest_data and callbacks may get.
AllCodes == KnownCodes \cup {f.code : f \in FramePayloads}

\* The register_callback calls tried: a plain function (hSync) and a
\* coroutine function (hAsync) for one code, a plain function (hOther) for
\* another.
Registrations ==
    {<<JMA_QUAKE, "hSync">>, <<JMA_QUAKE, "hAsync">>, <<JMA_TSUNAMI, "hOther">>}

\* asyncio.iscoroutinefunction(callback)
iscoroutinefunction(h) == h = "hAsync"

\* The limit and offset arguments tried on the list methods: negative,
\* zero, inside the range, at its end, just past it and far past it.
Limits == {-1, 0, 1, 50, 100, 101, 1000}
Offsets == {-3, 0, 7}

\* The bodies of a 200 response: up to MaxItems items.
Bodies ==
    UNION {[1..n -> FramePayloads] : n \in 0..MaxItems}

\* What a request may come to: a response with a status and a body, or an
\* exception of session.get (network, timeout) or of response.json (decode).
Responses ==
    {[exc |-> "none", status |-> 200, body |-> b] : b \in Bodies}
    \cup {[exc |-> "none", status |-> st, body |-> <<>>] : st \in {404, 429, 500}}
    \cup {[exc |-> "decode", status |-> 200, body |-> <<>>]}
    \cup {[exc |-> e, status |-> 0, body |-> <<>>] : e \in {"network", "timeout"}}

\* "no call has been made"
NoCall ==
    [st |-> "none", m |-> None, limit |-> 0, offset |-> 0,
     params |-> [limit |-> 0, offset |-> 0],
     resp |-> [exc |-> "none", status |-> 0, body |-> <<>>],
     raised |-> FALSE, list |-> <<>>, item |-> NoMsg, logs |-> {}]

\* A call of a list method with its arguments and the response it will
\* get; the by-id methods take an id, which nothing in the model depends on.
Calls ==
    {[NoCall EXCEPT !.st = "called", !.m = m, !.limit = l, !.offset = o,
                    !.resp = r] :
        m \in {"get_history", "get_jma_quakes", "get_jma_tsunamis"},
        l \in Limits, o \in Offsets, r \in Responses}
    \cup
    {[NoCall EXCEPT !.st = "called", !.m = m, !.resp = r] :
        m \in {"get_jma_quake_by_id", "get_jma_tsunami_by_id"},
        r \in Responses}

\* EarthquakeInfo.maxScale is Optional[int]: absent (None) or an integer.
NoScale == [present |-> FALSE, v |-> 0]
SomeScale(n) == [present |-> TRUE, v |-> n]
MinScale == -2
Scales == {NoScale} \cup {SomeScale(n) : n \in MinScale..MaxScale}

\* The labels of the Japanese intensity scale, in ASCII: "5-" and "6-" stand
\* for 5-lower and 6-lower (jaku), "5+" and "6+" for 5-upper and 6-upper
\* (kyo), "5-*" for the starred 5-lower, "unknown" for fumei.
scale_map ==
    (10 :> "1") @@ (20 :> "2") @@ (30 :> "3") @@ (40 :> "4") @@
    (45 :> "5-") @@ (46 :> "5-*") @@ (50 :> "5+") @@
    (55 :> "6-") @@ (60 :> "6+") @@ (70 :> "7")

\* No route has been called.
NoEntry == [st |-> "none", maxScale |-> NoScale, maxScaleString |-> ""]
\* A route is about to render an earthquake with any maxScale.
Entries ==
    {[st |-> "requested", maxScale |-> ms, maxScaleString |-> ""] :
        ms \in Scales}

\* The /api/p2p routes of main.py, by the name of their handler.
LatestRoutes ==
    {"get_p2p_latest_earthquakes", "get_p2p_latest_tsunamis",
     "get_p2p_latest_eew"}
ListRoutes == {"get_p2p_history", "get_p2p_jma_quakes", "get_p2p_jma_tsunamis"}
ByIdRoutes == {"get_p2p_jma_quake_by_id", "get_p2p_jma_tsunami_by_id"}
DataRoutes == LatestRoutes \cup ListRoutes \cup ByIdRoutes
StatusRoute == "get_p2p_service_status"

\* The client method a route awaits, None when it awaits none.
ClientMethodOf(name) ==
    CASE name = "get_p2p_history" -> "get_history"
      [] name = "get_p2p_jma_quakes" -> "get_jma_quakes"
      [] name = "get_p2p_jma_quake_by_id" -> "get_jma_quake_by_id"
      [] name = "get_p2p_jma_tsunamis" -> "get_jma_tsunamis"
      [] name = "get_p2p_jma_tsunami_by_id" -> "get_jma_tsunami_by_id"
      [] name = "get_p2p_latest_earthquakes" -> "get_jma_quakes"
      [] OTHER -> None

\* What the upstream API may answer to the request of a route: one
\* earthquake, one tsunami forecast, an empty list, "not found", or no
\* answer in time.
RouteResponses ==
    {r \in Responses :
        \/ r.exc = "timeout"
        \/ r.exc = "none" /\ r.status = 404
        \/ /\ r.exc = "none" /\ r.status = 200
           /\ Len(r.body) <= 1
           /\ \A i \in 1..Len(r.body) :
                 r.body[i].id \in {"q1", "t1"} /\ ~r.body[i].cancelled}

\* "no request has been made"
NoRoute ==
    [st |-> "none", name |-> None, limit |-> 0,
     resp |-> [exc |-> "none", status |-> 0, body |-> <<>>],
     status |-> 0, list |-> <<>>, item |-> NoMsg, source |-> None,
     origin |-> None, flags |-> {}]

\* A request as FastAPI hands it to its handler: limit is validated by
\* Query(ge=1, le=50); resp is what the upstream API will answer if the
\* handler asks it.
RouteCalls ==
    {[NoRoute EXCEPT !.st = "called", !.name = n, !.limit = l] :
        n \in {"get_p2p_latest_tsunamis", "get_p2p_latest_eew"},
        l \in 1..MaxLimit}
    \cup
    {[NoRoute EXCEPT !.st = "called", !.name = "get_p2p_latest_earthquakes",
                     !.limit = l, !.resp = r] :
        l \in 1..MaxLimit, r \in RouteResponses}
    \cup
    {[NoRoute EXCEPT !.st = "called", !.name = n, !.limit = 1, !.resp = r] :
        n \in ListRoutes \cup ByIdRoutes, r \in RouteResponses}
    \cup
    {[NoRoute EXCEPT !.st = "called", !.name = StatusRoute]}

VARIABLES
    is_monitoring,   \* self.is_monitoring
    ws_connection,   \* self.ws_connection: the websocket loop l made last, 0 for None
    latest_data,     \* self.latest_data: code -> message, NoMsg for no key
    data_history,    \* self.data_history
    callbacks,       \* self.callbacks: code -> list, <<>> for no key
    session,         \* self.session is not None
    pc,              \* position of each start_websocket_monitoring coroutine
    cur,             \* the message each loop is dispatching, NoMsg otherwise
    idx,             \* position of each loop in the callback list
    running,         \* loop inside a synchronous section, 0 at await points
    connOpen,        \* loops whose websocket is open
    inbox,           \* frames received on each loop's websocket, not yet read
    nframes,         \* frames sent by the feed so far
    cleanupPc,       \* position of a cleanup() call
    naccepted,       \* history variable: number of messages stored so far
    nregistered,     \* history variable: number of register_callback calls
    stopRequested,   \* history variable: stop was called after the last start
    invoked,         \* history variable: handlers run in the current dispatch
    lastOutcome,     \* history variable: how the last read of "async for" ended
    now,             \* asyncio.get_event_loop().time()
    last_request_time, \* self.last_request_time
    hpc,             \* position of each caller inside an HTTP client method
    hwake,           \* end of each caller's asyncio.sleep in _rate_limit
    nrequests,       \* history variable: requests sent so far
    reqLog,          \* history variable: times of the last two requests sent
    overlapped,      \* history variable: two calls were in flight at once
    lastCall,        \* history variable: the client call that returned last
    quakeEntry,      \* one entry of the "earthquakes" list a route returns
    p2p_earthquake_service, \* main.py's global is not None
    route,           \* the /api/p2p request in progress and its answer
    connected_websockets, \* main.py's list of the /ws clients
    wsState,         \* each client's socket: new, open, dropped or closed
    bpc,             \* position of broadcast_to_websockets
    bidx,            \* index of the list iterator of the broadcast's for loop
    bcur,            \* the client the broadcast is sending to, 0 for none
    disconnected,    \* the local list "disconnected" of the broadcast
    attempted,       \* history variable: clients the broadcast sent to
    stayed,          \* history variable: clients listed during all the broadcast
    sched_running,   \* AMeDASScheduler.running
    sched_task,      \* AMeDASScheduler.task: a task, 0 for None
    tpc,             \* position of each update_loop task
    nupdates,        \* fetch_and_store calls begun so far
    schedStopped,    \* history variable: stop() was called after the last start()
    lateFetch        \* history variable: a fetch began after that stop()

monitorVars ==
    <<is_monitoring, ws_connection, latest_data, data_history, callbacks, nregistered, stopRequested,
      session, pc, cur, idx, running, connOpen, inbox, nframes, cleanupPc,
      naccepted, invoked, lastOutcome>>

wsVars ==
    <<connected_websockets, wsState, bpc, bidx, bcur, disconnected, attempted,
      stayed>>

schedVars ==
    <<sched_running, sched_task, tpc, nupdates, schedStopped, lateFetch>>

httpVars ==
    <<now, last_request_time, hpc, hwake, nrequests, reqLog, overlapped,
      lastCall, quakeEntry, p2p_earthquake_service, route, wsVars, schedVars>>

vars == <<monitorVars, httpVars>>

\* ---------------------------------------------------------------- parser

\* pydantic validation of the payload against the class of its code
SchemaMatches(f) == RequiredFields(f.code) \subseteq f.fields

\* A parser that forgets the else branch of lines 326-328.
ParseResponseData_AnyCode(f) ==
    IF SchemaMatches(f)
    THEN [code |-> f.code, id |-> f.id, cancelled |-> f.cancelled]
    ELSE NoMsg

\* _parse_response_data: the variant, or NoMsg for None (it never raises:
\* the whole body is inside try/except Exception)
ParseResponseData(f) ==
    IF f.code \in KnownCodes /\ SchemaMatches(f)
    THEN [code |-> f.code, id |-> f.id, cancelled |-> f.cancelled]
    ELSE NoMsg

\* ----------------------------------------------------------------- store

\* A history that is never trimmed.
TrimHistory_NoTrim(h) == h

\* A history that keeps its first entries and drops the newest.
TrimHistory_KeepOldest(h) ==
    IF Len(h) > HistoryCap THEN SubSeq(h, 1, HistoryCap) ELSE h

\* data_history[-1000:] when len(data_history) > 1000
TrimHistory(h) ==
    IF Len(h) > HistoryCap
    THEN SubSeq(h, Len(h) - HistoryCap + 1, Len(h))
    ELSE h

\* ------------------------------------------------------------- callbacks

\* A dispatch that runs the handlers of every code.
CallbacksFor_AllCodes(cbs, code) == cbs[JMA_QUAKE] \o cbs[JMA_TSUNAMI]

\* self.callbacks[data.code] when the key exists (an absent key and an
\* empty list both run no handler)
CallbacksFor(cbs, code) == cbs[code]

\* A dispatch that a raising handler aborts.
NextHandlerIndex_AbortOnRaise(i, outcome, n) ==
    IF outcome = "raise" THEN n + 1 ELSE i + 1

\* _trigger_callbacks: the except clause logs and the for loop goes on
NextHandlerIndex(i, outcome, n) == i + 1

\* ------------------------------------------------------------------ loop

\* A loop that reconnects at once.
AfterBody_NoBackoff(mon) == IF mon THEN "Connecting" ELSE "Stopped"

\* Lines 585-589 and the while test of line 547, which no await separates:
\* sleep when still monitoring, leave the loop otherwise.
AfterBody(mon) == IF mon THEN "Sleeping" ELSE "Stopped"

\* A loop that treats a bad frame as a failure of the connection.
AfterFrameError_Reconnect(mon) == IF mon THEN "Sleeping" ELSE "Stopped"

\* Lines 575-578: both except clauses are inside the "async for" body, so
\* after an exception raised while handling a frame the loop takes the
\* next frame of the same connection.
AfterFrameError(mon) == "Listening"

\* A loop that a failed handler throws out of the connection.
AfterDispatch_ReconnectOnRaise(failed, mon) ==
    IF ~failed THEN "Listening" ELSE IF mon THEN "Sleeping" ELSE "Stopped"

\* Lines 571-573: _trigger_callbacks returns normally whether or not a
\* handler raised (line 304), and the loop takes the next frame.
AfterDispatch(failed, mon) == "Listening"

\* A loop that reconnects after its sleep without testing the flag.
AfterSleep_IgnoresFlag(mon) == "Connecting"

\* Line 547 after the sleep of line 587.
AfterSleep(mon) == IF mon THEN "Connecting" ELSE "Stopped"

MonitorInit ==
    /\ is_monitoring = FALSE
    /\ ws_connection = 0
    /\ latest_data = [c \in AllCodes |-> NoMsg]
    /\ data_history = <<>>
    /\ callbacks = [c \in AllCodes |-> <<>>]
    /\ session = FALSE
    /\ pc = [l \in Loops |-> "NotStarted"]
    /\ cur = [l \in Loops |-> NoMsg]
    /\ idx = [l \in Loops |-> 0]
    /\ running = 0
    /\ connOpen = {}
    /\ inbox = [l \in Loops |-> <<>>]
    /\ nframes = 0
    /\ cleanupPc = "idle"
    /\ naccepted = 0
    /\ nregistered = 0
    /\ stopRequested = FALSE
    /\ invoked = [l \in Loops |-> <<>>]
    /\ lastOutcome = "none"

\* main.py:160, and no broadcast in progress.
WsInit ==
    /\ connected_websockets = <<>>
    /\ wsState = [c \in Clients |-> "new"]
    /\ bpc = "idle"
    /\ bidx = 0
    /\ bcur = 0
    /\ disconnected = <<>>
    /\ attempted = {}
    /\ stayed = {}

\* AMeDASScheduler.__init__, lines 39-42.
SchedulerInit ==
    /\ sched_running = FALSE
    /\ sched_task = 0
    /\ tpc = [t \in Tasks |-> "none"]
    /\ nupdates = 0
    /\ schedStopped = FALSE
    /\ lateFetch = FALSE

LimiterInit ==
    /\ last_request_time = 0
    /\ hpc = [k \in Callers |-> "idle"]
    /\ hwake = [k \in Callers |-> 0]
    /\ nrequests = 0
    /\ reqLog = <<>>
    /\ overlapped = FALSE

\* No request is in progress; lifespan has built the service.
ApiIdle == p2p_earthquake_service = TRUE /\ route = NoRoute

ClientInit ==
    LimiterInit /\ WsInit /\ SchedulerInit /\ lastCall = NoCall /\ quakeEntry = NoEntry /\ ApiIdle

Init == MonitorInit /\ ClientInit /\ now = 0

\* ------------------------------------------------------- monitor actions

\* A caller creates the coroutine (asyncio.create_task(start_websocket_
\* monitoring()), main.py:434); its body has not run yet.
Start(l) ==
    /\ running = 0
    /\ pc[l] = "NotStarted"
    /\ \A k \in Loops : k < l => pc[k] # "NotStarted"
    /\ pc' = [pc EXCEPT ![l] = "Created"]
    /\ UNCHANGED <<is_monitoring, ws_connection, latest_data, data_history,
                   callbacks, nregistered, stopRequested, session, cur, idx, running, connOpen, inbox,
                   nframes, cleanupPc, naccepted, invoked, lastOutcome>>
    /\ UNCHANGED httpVars

\* Lines 540-549: the body up to the first await (websockets.connect).
LoopBegin(l) ==
    /\ running = 0
    /\ pc[l] = "Created"
    /\ IF enable_websocket
       THEN /\ is_monitoring' = TRUE
            /\ pc' = [pc EXCEPT ![l] = "Connecting"]
       ELSE /\ pc' = [pc EXCEPT ![l] = "Stopped"]
            /\ UNCHANGED is_monitoring
    /\ UNCHANGED <<ws_connection, latest_data, data_history, callbacks, nregistered, stopRequested,
                   session, cur, idx, running, connOpen, inbox, nframes,
                   cleanupPc, naccepted, invoked, lastOutcome>>
    /\ UNCHANGED httpVars

\* Lines 549-553: the handshake succeeds; the loop waits for a frame.
ConnectOk(l) ==
    /\ running = 0
    /\ pc[l] = "Connecting"
    /\ ws_connection' = l
    /\ connOpen' = connOpen \cup {l}
    /\ inbox' = [inbox EXCEPT ![l] = <<>>]
    /\ pc' = [pc EXCEPT ![l] = "Listening"]
    /\ UNCHANGED <<is_monitoring, latest_data, data_history, callbacks, nregistered, stopRequested,
                   session, cur, idx, running, nframes, cleanupPc, naccepted,
                   invoked, lastOutcome>>
    /\ UNCHANGED httpVars

\* Lines 549, 582-589: the handshake raises.
ConnectFail(l) ==
    /\ running = 0
    /\ pc[l] = "Connecting"
    /\ pc' = [pc EXCEPT ![l] = AfterBody(is_monitoring)]
    /\ UNCHANGED <<is_monitoring, ws_connection, latest_data, data_history,
                   callbacks, nregistered, stopRequested, session, cur, idx, running, connOpen, inbox,
                   nframes, cleanupPc, naccepted, invoked, lastOutcome>>
    /\ UNCHANGED httpVars

\* The feed sends one frame to every open connection.
FeedSend(f) ==
    /\ running = 0
    /\ nframes < MaxFrames
    /\ connOpen # {}
    /\ \A l \in connOpen : Len(inbox[l]) < MaxInbox
    /\ nframes' = nframes + 1
    /\ inbox' = [l \in Loops |->
                    IF l \in connOpen THEN Append(inbox[l], f) ELSE inbox[l]]
    /\ UNCHANGED <<is_monitoring, ws_connection, latest_data, data_history,
                   callbacks, nregistered, stopRequested, session, pc, cur, idx, running, connOpen,
                   cleanupPc, naccepted, invoked, lastOutcome>>
    /\ UNCHANGED httpVars

\* The network or the server closes the connection of loop l.
ConnectionDrop(l) ==
    /\ running = 0
    /\ l \in connOpen
    /\ connOpen' = connOpen \ {l}
    /\ UNCHANGED <<is_monitoring, ws_connection, latest_data, data_history,
                   callbacks, nregistered, stopRequested, session, pc, cur, idx, running, inbox, nframes,
                   cleanupPc, naccepted, invoked, lastOutcome>>
    /\ UNCHANGED httpVars

\* A loop that dispatches a message before it stores it.
RecvFrame_DispatchFirst(l) ==
    /\ running = 0
    /\ pc[l] = "Listening"
    /\ inbox[l] # <<>>
    /\ LET f == Head(inbox[l])
           parsed == ParseResponseData(f)
       IN /\ inbox' = [inbox EXCEPT ![l] = Tail(inbox[l])]
          /\ IF ~is_monitoring
             THEN \* line 554-555: break, then the "async with" closes
                  /\ pc' = [pc EXCEPT ![l] = "Closing"]
                  /\ connOpen' = connOpen \ {l}
                  /\ lastOutcome' = "break"
                  /\ UNCHANGED <<latest_data, data_history, naccepted, cur,
                                 idx, invoked, running>>
             ELSE IF ~f.json
             THEN \* line 575: json.JSONDecodeError
                  /\ lastOutcome' = "decode_error"
                  /\ pc' = [pc EXCEPT ![l] = AfterFrameError(is_monitoring)]
                  /\ UNCHANGED <<connOpen, latest_data, data_history,
                                 naccepted, cur, idx, invoked, running>>
             ELSE IF parsed = NoMsg
             THEN /\ lastOutcome' = "unparseable"
                  /\ UNCHANGED <<pc, connOpen, latest_data, data_history,
                                 naccepted, cur, idx, invoked, running>>
             ELSE \* lines 561-571
                  /\ UNCHANGED <<latest_data, data_history>>
                  /\ naccepted' = naccepted + 1
                  /\ cur' = [cur EXCEPT ![l] = parsed]
                  /\ idx' = [idx EXCEPT ![l] = 1]
                  /\ invoked' = [invoked EXCEPT ![l] = <<>>]
                  /\ lastOutcome' = IF lastOutcome = "lost"
                                     THEN "stored_after_loss"
                                     ELSE "stored"
                  /\ pc' = [pc EXCEPT ![l] = "Dispatch"]
                  /\ running' = l
                  /\ UNCHANGED connOpen
    /\ UNCHANGED <<is_monitoring, ws_connection, callbacks, nregistered, stopRequested, session, nframes,
                   cleanupPc>>
    /\ UNCHANGED httpVars

\* Lines 553-578: "async for" yields the next frame.
RecvFrame(l) ==
    /\ running = 0
    /\ pc[l] = "Listening"
    /\ inbox[l] # <<>>
    /\ LET f == Head(inbox[l])
           parsed == ParseResponseData(f)
       IN /\ inbox' = [inbox EXCEPT ![l] = Tail(inbox[l])]
          /\ IF ~is_monitoring
             THEN \* line 554-555: break, then the "async with" closes
                  /\ pc' = [pc EXCEPT ![l] = "Closing"]
                  /\ connOpen' = connOpen \ {l}
                  /\ lastOutcome' = "break"
                  /\ UNCHANGED <<latest_data, data_history, naccepted, cur,
                                 idx, invoked, running>>
             ELSE IF ~f.json
             THEN \* line 575: json.JSONDecodeError
                  /\ lastOutcome' = "decode_error"
                  /\ pc' = [pc EXCEPT ![l] = AfterFrameError(is_monitoring)]
                  /\ UNCHANGED <<connOpen, latest_data, data_history,
                                 naccepted, cur, idx, invoked, running>>
             ELSE IF parsed = NoMsg
             THEN /\ lastOutcome' = "unparseable"
                  /\ UNCHANGED <<pc, connOpen, latest_data, data_history,
                                 naccepted, cur, idx, invoked, running>>
             ELSE \* lines 561-571
                  /\ latest_data' = [latest_data EXCEPT ![parsed.code] = parsed]
                  /\ data_history' = TrimHistory(Append(data_history, parsed))
                  /\ naccepted' = naccepted + 1
                  /\ cur' = [cur EXCEPT ![l] = parsed]
                  /\ idx' = [idx EXCEPT ![l] = 1]
                  /\ invoked' = [invoked EXCEPT ![l] = <<>>]
                  /\ lastOutcome' = IF lastOutcome = "lost"
                                     THEN "stored_after_loss"
                                     ELSE "stored"
                  /\ pc' = [pc EXCEPT ![l] = "Dispatch"]
                  /\ running' = l
                  /\ UNCHANGED connOpen
    /\ UNCHANGED <<is_monitoring, ws_connection, callbacks, nregistered, stopRequested, session, nframes,
                   cleanupPc>>
    /\ UNCHANGED httpVars

\* _trigger_callbacks, lines 297-305: the loop invokes the next handler of
\* the list, or finds the list exhausted and goes back to "async for".  A
\* plain function and a coroutine that never suspends finish in this step;
\* a coroutine that awaits leaves the event loop to the others.
DispatchStep(l) ==
    /\ running = l
    /\ pc[l] = "Dispatch"
    /\ LET cbs == CallbacksFor(callbacks, cur[l].code)
       IN IF idx[l] > Len(cbs)
          THEN /\ pc' = [pc EXCEPT ![l] =
                         AfterDispatch(\E i \in 1..Len(invoked[l]) :
                                          invoked[l][i].outcome = "raise",
                                       is_monitoring)]
               /\ running' = 0
               /\ cur' = [cur EXCEPT ![l] = NoMsg]
               /\ idx' = [idx EXCEPT ![l] = 0]
               /\ invoked' = [invoked EXCEPT ![l] = <<>>]
          ELSE \/ /\ iscoroutinefunction(cbs[idx[l]])
                  /\ pc' = [pc EXCEPT ![l] = "InHandler"]
                  /\ running' = 0
                  /\ UNCHANGED <<cur, idx, invoked>>
               \/ \E outcome \in {"ok", "raise"} :
                     /\ invoked' = [invoked EXCEPT ![l] =
                            Append(@, [h |-> cbs[idx[l]], pos |-> idx[l],
                                       m |-> cur[l], outcome |-> outcome])]
                     /\ idx' = [idx EXCEPT ![l] =
                            NextHandlerIndex(idx[l], outcome, Len(cbs))]
                     /\ UNCHANGED <<pc, running, cur>>
    /\ UNCHANGED <<is_monitoring, ws_connection, latest_data, data_history,
                   callbacks, nregistered, stopRequested, session, connOpen, inbox, nframes, cleanupPc,
                   naccepted, lastOutcome>>
    /\ UNCHANGED httpVars

\* Line 301: the awaited coroutine handler returns or raises.
HandlerReturn(l) ==
    /\ running = 0
    /\ pc[l] = "InHandler"
    /\ LET cbs == CallbacksFor(callbacks, cur[l].code)
       IN \E outcome \in {"ok", "raise"} :
             /\ invoked' = [invoked EXCEPT ![l] =
                    Append(@, [h |-> cbs[idx[l]], pos |-> idx[l],
                                       m |-> cur[l], outcome |-> outcome])]
             /\ idx' = [idx EXCEPT ![l] =
                    NextHandlerIndex(idx[l], outcome, Len(cbs))]
    /\ pc' = [pc EXCEPT ![l] = "Dispatch"]
    /\ running' = l
    /\ UNCHANGED <<is_monitoring, ws_connection, latest_data, data_history,
                   callbacks, nregistered, stopRequested, session, cur, connOpen, inbox, nframes,
                   cleanupPc, naccepted, lastOutcome>>
    /\ UNCHANGED httpVars

\* Lines 553, 580-589: the iteration ends or raises ConnectionClosed once
\* the connection is closed and the buffered frames are consumed.
ListenEnds(l) ==
    /\ running = 0
    /\ pc[l] = "Listening"
    /\ inbox[l] = <<>>
    /\ l \notin connOpen
    /\ pc' = [pc EXCEPT ![l] = AfterBody(is_monitoring)]
    /\ lastOutcome' = IF is_monitoring THEN "lost" ELSE lastOutcome
    /\ UNCHANGED <<is_monitoring, ws_connection, latest_data, data_history,
                   callbacks, nregistered, stopRequested, session, cur, idx, running, connOpen, inbox,
                   nframes, cleanupPc, naccepted, invoked>>
    /\ UNCHANGED httpVars

\* Lines 549, 585-589: the close handshake of the "async with" exit is done.
CloseDone(l) ==
    /\ running = 0
    /\ pc[l] = "Closing"
    /\ pc' = [pc EXCEPT ![l] = AfterBody(is_monitoring)]
    /\ UNCHANGED <<is_monitoring, ws_connection, latest_data, data_history,
                   callbacks, nregistered, stopRequested, session, cur, idx, running, connOpen, inbox,
                   nframes, cleanupPc, naccepted, invoked, lastOutcome>>
    /\ UNCHANGED httpVars

\* Lines 587, 547: the backoff sleep ends.
Wake(l) ==
    /\ running = 0
    /\ pc[l] = "Sleeping"
    /\ pc' = [pc EXCEPT ![l] = AfterSleep(is_monitoring)]
    /\ UNCHANGED <<is_monitoring, ws_connection, latest_data, data_history,
                   callbacks, nregistered, stopRequested, session, cur, idx, running, connOpen, inbox,
                   nframes, cleanupPc, naccepted, invoked, lastOutcome>>
    /\ UNCHANGED httpVars

\* stop_websocket_monitoring, lines 591-594
stop_websocket_monitoring ==
    /\ running = 0
    /\ is_monitoring' = FALSE
    /\ UNCHANGED <<ws_connection, latest_data, data_history, callbacks, nregistered, stopRequested,
                   session, pc, cur, idx, running, connOpen, inbox, nframes,
                   cleanupPc, naccepted, invoked, lastOutcome>>
    /\ UNCHANGED httpVars

\* A count of the codes that have a handler.
RegisteredCallbacks_CountCodes(cbs) ==
    Cardinality({c \in DOMAIN cbs : cbs[c] # <<>>})

\* sum(len(callbacks) for callbacks in self.callbacks.values()), line 630
RegisteredCallbacks(cbs) ==
    LET RECURSIVE Sum(_)
        Sum(S) == IF S = {} THEN 0
                  ELSE LET c == CHOOSE x \in S : TRUE
                       IN Len(cbs[c]) + Sum(S \ {c})
    IN Sum(DOMAIN cbs)

\* register_callback, lines 288-293
register_callback(code, h) ==
    /\ running = 0
    /\ RegisteredCallbacks(callbacks) < MaxCallbacks
    /\ callbacks' = [callbacks EXCEPT ![code] = Append(@, h)]
    /\ nregistered' = nregistered + 1
    /\ UNCHANGED <<is_monitoring, stopRequested, ws_connection, latest_data, data_history,
                   session, pc, cur, idx, running, connOpen, inbox, nframes,
                   cleanupPc, naccepted, invoked, lastOutcome>>
    /\ UNCHANGED httpVars

\* cleanup, lines 265-268: up to the await of ws_connection.close(), or to
\* the end when there is no connection.
CleanupBegin ==
    /\ running = 0
    /\ cleanupPc = "idle"
    /\ is_monitoring' = FALSE
    /\ IF ws_connection # 0
       THEN /\ connOpen' = connOpen \ {ws_connection}
            /\ cleanupPc' = "closing"
            /\ UNCHANGED session
       ELSE /\ session' = FALSE
            /\ UNCHANGED <<connOpen, cleanupPc>>
    /\ UNCHANGED <<ws_connection, latest_data, data_history, callbacks, nregistered, stopRequested, pc,
                   cur, idx, running, inbox, nframes, naccepted, invoked,
                   lastOutcome>>
    /\ UNCHANGED httpVars

\* A cleanup that also empties the caches.
CleanupEnd_DropsData ==
    /\ running = 0
    /\ cleanupPc = "closing"
    /\ ws_connection' = 0
    /\ session' = FALSE
    /\ cleanupPc' = "idle"
    /\ latest_data' = [c \in AllCodes |-> NoMsg]
    /\ data_history' = <<>>
    /\ UNCHANGED <<is_monitoring, callbacks, nregistered, stopRequested, pc,
                   cur, idx, running, connOpen, inbox, nframes, naccepted,
                   invoked, lastOutcome>>
    /\ UNCHANGED httpVars

\* cleanup, lines 269-275
CleanupEnd ==
    /\ running = 0
    /\ cleanupPc = "closing"
    /\ ws_connection' = 0
    /\ session' = FALSE
    /\ cleanupPc' = "idle"
    /\ UNCHANGED <<is_monitoring, latest_data, data_history, callbacks, nregistered, stopRequested, pc,
                   cur, idx, running, connOpen, inbox, nframes, naccepted,
                   invoked, lastOutcome>>
    /\ UNCHANGED httpVars

\* ---------------------------------------------------------------- facade

\* Python's seq[-limit:] for an integer limit: a start index of -limit,
\* counted from the end when negative and clipped to the list.
SliceFromMinus(seq, limit) ==
    LET n == Len(seq)
        start == IF -limit < 0
                 THEN (IF n - limit < 0 THEN 0 ELSE n - limit)
                 ELSE (IF -limit > n THEN n ELSE -limit)
    IN SubSeq(seq, start + 1, n)

\* isinstance(data, cls) for the message classes, none of which derives
\* from another
isinstance(m, cls) == ClassOf(m.code) = cls

IsJMAQuake(m) == isinstance(m, "JMAQuake")
IsJMATsunami(m) == isinstance(m, "JMATsunami")
IsEEW(m) == isinstance(m, "EEW")

\* get_latest_earthquakes, lines 596-602
get_latest_earthquakes(limit) ==
    LET earthquakes == SelectSeq(data_history, IsJMAQuake)
    IN IF earthquakes # <<>> THEN SliceFromMinus(earthquakes, limit) ELSE <<>>

\* get_latest_tsunamis, lines 604-610
get_latest_tsunamis(limit) ==
    LET tsunamis == SelectSeq(data_history, IsJMATsunami)
    IN IF tsunamis # <<>> THEN SliceFromMinus(tsunamis, limit) ELSE <<>>

\* get_latest_eew, lines 612-618
get_latest_eew(limit) ==
    LET eews == SelectSeq(data_history, IsEEW)
    IN IF eews # <<>> THEN SliceFromMinus(eews, limit) ELSE <<>>

\* get_service_status, lines 620-631 (the configuration entries left out)
get_service_status ==
    [is_monitoring |-> is_monitoring,
     websocket_connected |-> ws_connection # 0,
     latest_data_count |->
        Cardinality({c \in DOMAIN latest_data : latest_data[c] # NoMsg}),
     history_count |-> Len(data_history),
     registered_callbacks |-> RegisteredCallbacks(callbacks)]

\* ----------------------------------------------------------- HTTP client

\* A limiter that never sleeps.
RateLimitWait_NoSleep(current_time, last) == 0

\* _rate_limit, lines 279-284: the time to sleep, 0 for no sleep
RateLimitWait(current_time, last) ==
    IF current_time - last < rate_limit_delay
    THEN rate_limit_delay - (current_time - last)
    ELSE 0

\* Every client method awaits _rate_limit before its request
\* (lines 344, 393, 446, 477, 519).
AwaitsRateLimit(m) == m \in Methods

\* The times of the last two requests.
LastTwo(s) == IF Len(s) > 2 THEN SubSeq(s, Len(s) - 1, Len(s)) ELSE s

\* Lines 286 and 356 (419, 450, 492, 523): the stamp is taken and the request
\* is sent with no await in between.
SendRequest(k) ==
    /\ last_request_time' = now
    /\ reqLog' = LastTwo(Append(reqLog, now))
    /\ nrequests' = nrequests + 1
    /\ hpc' = [hpc EXCEPT ![k] = "requesting"]

\* A client method is called: initialize() when there is no session, then
\* _rate_limit up to its sleep, or through to the request when no sleep is
\* needed.
CallBegin(k, m) ==
    /\ hpc[k] = "idle"
    /\ \A j \in Callers : j < k => (hpc[j] # "idle" \/ nrequests > 0)
    /\ nrequests + Cardinality({j \in Callers : hpc[j] = "sleeping"})
          < MaxRequests
    /\ session' = TRUE
    /\ overlapped' = (overlapped \/ \E j \in Callers : hpc[j] # "idle")
    /\ LET wait_time == IF AwaitsRateLimit(m)
                        THEN RateLimitWait(now, last_request_time)
                        ELSE 0
       IN IF wait_time > 0
          THEN /\ hpc' = [hpc EXCEPT ![k] = "sleeping"]
               /\ hwake' = [hwake EXCEPT ![k] = now + wait_time]
               /\ UNCHANGED <<last_request_time, reqLog, nrequests>>
          ELSE /\ SendRequest(k)
               /\ UNCHANGED hwake
    /\ UNCHANGED <<now, lastCall, quakeEntry, p2p_earthquake_service, route, wsVars, schedVars>>
    /\ UNCHANGED <<is_monitoring, ws_connection, latest_data, data_history,
                   callbacks, nregistered, stopRequested, pc, cur, idx, running, connOpen, inbox, nframes,
                   cleanupPc, naccepted, invoked, lastOutcome>>

\* Lines 284-286: asyncio.sleep returns, not before its deadline.
RateLimitWake(k) ==
    /\ hpc[k] = "sleeping"
    /\ now >= hwake[k]
    /\ SendRequest(k)
    /\ hwake' = [hwake EXCEPT ![k] = 0]
    /\ UNCHANGED <<now, overlapped, lastCall, quakeEntry, p2p_earthquake_service, route, wsVars, schedVars>>
    /\ UNCHANGED monitorVars

\* The response arrives (or the request fails) and the method returns.
CallReturn(k) ==
    /\ hpc[k] = "requesting"
    /\ hpc' = [hpc EXCEPT ![k] = "idle"]
    /\ UNCHANGED <<now, last_request_time, hwake, nrequests, reqLog,
                   overlapped, lastCall, quakeEntry, p2p_earthquake_service, route, wsVars, schedVars>>
    /\ UNCHANGED monitorVars

\* The event-loop clock advances.
Tick ==
    /\ now < MaxTime
    /\ now' = now + 1
    /\ UNCHANGED <<last_request_time, hpc, hwake, nrequests, reqLog,
                   overlapped, lastCall, quakeEntry, p2p_earthquake_service, route, wsVars, schedVars>>
    /\ UNCHANGED monitorVars

HttpNext ==
    \/ \E k \in Callers, m \in Methods : CallBegin(k, m)
    \/ \E k \in Callers : RateLimitWake(k)
    \/ \E k \in Callers : CallReturn(k)
    \/ Tick

\* The clock is the monotonic clock of the host: any value at start-up.
HttpInit == MonitorInit /\ ClientInit /\ now \in 0..rate_limit_delay

HttpSpec == HttpInit /\ [][HttpNext]_vars

\* ------------------------------------- client calls: request and result

max(a, b) == IF a >= b THEN a ELSE b
min(a, b) == IF a <= b THEN a ELSE b

IsListMethod(m) == m \in {"get_history", "get_jma_quakes", "get_jma_tsunamis"}

\* A clamp without its lower end.
ClampLimit_NoFloor(limit) == min(limit, 100)

\* 'limit': min(max(limit, 1), 100)  (lines 347, 396, 480)
ClampLimit(limit) == min(max(limit, 1), 100)

\* 'offset': max(offset, 0)  (lines 348, 397, 481)
ClampOffset(offset) == max(offset, 0)

\* The params dict of a list method; the by-id methods send none.
RequestParams(m, limit, offset) ==
    IF IsListMethod(m)
    THEN [limit |-> ClampLimit(limit), offset |-> ClampOffset(offset)]
    ELSE [limit |-> 0, offset |-> 0]

\* The class a method instantiates for an item: JMAQuake(**item),
\* JMATsunami(**item); get_history goes through _parse_response_data.
MethodClass(m) ==
    CASE m \in {"get_jma_quakes", "get_jma_quake_by_id"} -> JMA_QUAKE
      [] m \in {"get_jma_tsunamis", "get_jma_tsunami_by_id"} -> JMA_TSUNAMI
      [] OTHER -> 0

\* cls(**item) succeeds: the item is a JSON object with the required fields
\* of the class (BasicData.code is any int).
ValidatesAs(item, code) ==
    item.json /\ RequiredFields(code) \subseteq item.fields

\* The message a method makes of one item, NoMsg when the item is skipped.
ParseItem(m, item) ==
    IF m = "get_history"
    THEN ParseResponseData(item)
    ELSE IF ValidatesAs(item, MethodClass(m))
         THEN [code |-> item.code, id |-> item.id, cancelled |-> item.cancelled]
         ELSE NoMsg

\* The level at which an item is logged: the parser warns about an unknown
\* code (line 327) and reports a validation failure as an error (line 331);
\* the list methods report a failed item as an error (lines 429, 502).
ItemLogs(m, item) ==
    IF ParseItem(m, item) # NoMsg THEN {}
    ELSE IF m = "get_history" /\ item.code \notin KnownCodes THEN {"warning"}
    ELSE {"error"}

\* The for loop of lines 362-365, 424-429, 497-502.
ParseItems(m, body) ==
    LET Kept(item) == ParseItem(m, item) # NoMsg
        kept == SelectSeq(body, Kept)
    IN [i \in 1..Len(kept) |-> ParseItem(m, kept[i])]

\* A handler that lets timeouts and decoding errors through.
ExceptException_NetworkOnly(exc) == exc = "network"

\* "except Exception" (lines 372, 437, 461, 510, 534): aiohttp.ClientError,
\* asyncio.TimeoutError, the errors of response.json() and pydantic's
\* ValidationError / TypeError all derive from Exception.
ExceptException(exc) ==
    exc \in {"network", "timeout", "decode", "validation"}

\* A lookup that reports a missing id as an error.
NotFoundLevel_Error == "error"

\* logger.warning of lines 454, 527
NotFoundLevel == "warning"

\* The exception raised inside the try block, "none" when there is none:
\* session.get or response.json() raises, or a by-id method instantiates
\* its class on a body that is not a valid object (lines 452, 525).
RaisedInTry(m, resp) ==
    IF resp.exc # "none" THEN resp.exc
    ELSE IF /\ resp.status = 200
            /\ ~IsListMethod(m)
            /\ ~(Len(resp.body) = 1 /\ ValidatesAs(resp.body[1], MethodClass(m)))
         THEN "validation"
         ELSE "none"

\* What a client method returns for a response: the list or the item, the
\* log levels it emits, and whether an exception leaves the method.
MethodOutcome(m, resp) ==
    LET exc == RaisedInTry(m, resp)
        nothing == [raised |-> FALSE, list |-> <<>>, item |-> NoMsg,
                    logs |-> {"error"}]
    IN IF exc # "none"
       THEN IF ExceptException(exc)
            THEN nothing
            ELSE [nothing EXCEPT !.raised = TRUE, !.logs = {}]
       ELSE IF resp.status = 200
       THEN IF IsListMethod(m)
            THEN [nothing EXCEPT
                    !.list = ParseItems(m, resp.body),
                    !.logs = {"info"} \cup
                       UNION {ItemLogs(m, resp.body[i]) : i \in 1..Len(resp.body)}]
            ELSE [nothing EXCEPT
                    !.item = ParseItem(m, resp.body[1]),
                    !.logs = {}]
       ELSE IF resp.status = 404 /\ ~IsListMethod(m)
       THEN [nothing EXCEPT !.logs = {NotFoundLevel}]
       ELSE nothing

\* One call of a client method from its arguments to its return value.
\* When the request is sent is the business of CallBegin and RateLimitWake.
ClientCall ==
    /\ lastCall.st = "called"
    /\ session' = TRUE
    /\ lastCall' =
          LET out == MethodOutcome(lastCall.m, lastCall.resp)
          IN [lastCall EXCEPT
                !.st = "returned",
                !.params = RequestParams(lastCall.m, lastCall.limit,
                                         lastCall.offset),
                !.raised = out.raised, !.list = out.list, !.item = out.item,
                !.logs = out.logs]
    /\ UNCHANGED <<now, last_request_time, hpc, hwake, nrequests, reqLog,
                   overlapped, quakeEntry, p2p_earthquake_service, route, wsVars, schedVars>>
    /\ UNCHANGED <<is_monitoring, ws_connection, latest_data, data_history,
                   callbacks, nregistered, stopRequested, pc, cur, idx, running, connOpen, inbox, nframes,
                   cleanupPc, naccepted, invoked, lastOutcome>>

QueryNext == ClientCall

\* Any one call with any response.
QueryInit ==
    /\ MonitorInit /\ LimiterInit /\ WsInit /\ SchedulerInit /\ now = 0
    /\ lastCall \in Calls /\ quakeEntry = NoEntry /\ ApiIdle

\* The client methods as functions of their arguments and of the response.
QuerySpec == QueryInit /\ [][QueryNext]_vars

\* ------------------------------------------- intensity labels of a route

\* scale_map.get(scale_int, default) with the table's last entry missing.
scale_int_to_string_NoSeven(scale_int) ==
    IF scale_int.present /\ scale_int.v \in DOMAIN scale_map \ {70}
    THEN scale_map[scale_int.v]
    ELSE "unknown"

\* scale_map.get(scale_int, default): None is not a key of the table.
scale_int_to_string(scale_int) ==
    IF scale_int.present /\ scale_int.v \in DOMAIN scale_map
    THEN scale_map[scale_int.v]
    ELSE "unknown"

\* Truth value of an Optional[int]: None and 0 are false.
Truthy(ms) == ms.present /\ ms.v # 0

\* The "maxScaleString" expression of the routes.
maxScaleString(ms) ==
    IF Truthy(ms) /\ ms.v > 0 THEN scale_int_to_string(ms) ELSE "unknown"

\* The route renders one earthquake of its list.
get_p2p_latest_earthquakes ==
    /\ quakeEntry.st = "requested"
    /\ quakeEntry' =
          [quakeEntry EXCEPT !.st = "returned",
                             !.maxScaleString = maxScaleString(quakeEntry.maxScale)]
    /\ UNCHANGED <<now, last_request_time, hpc, hwake, nrequests, reqLog,
                   overlapped, lastCall, p2p_earthquake_service, route, wsVars, schedVars>>
    /\ UNCHANGED monitorVars

RouteNext == get_p2p_latest_earthquakes

RouteInit ==
    /\ MonitorInit /\ LimiterInit /\ WsInit /\ SchedulerInit /\ now = 0
    /\ lastCall = NoCall /\ quakeEntry \in Entries /\ ApiIdle

\* The label of an earthquake as a function of its maxScale.
RouteSpec == RouteInit /\ [][RouteNext]_vars

\* --------------------------------------------------- the /api/p2p routes

\* The top-level "source" of /api/p2p/earthquakes/latest (main.py:2941),
\* evaluated when the response is built.
SourceLabel ==
    IF get_latest_earthquakes(1) = <<>>
    THEN "P2P HTTP API"
    ELSE "P2P WebSocket API"

\* raise HTTPException(status_code=503) of the data routes.
Unavailable(r) == [r EXCEPT !.st = "returned", !.status = 503]

\* The body of /api/p2p/status: the flags that are true.
StatusFlags ==
    IF ~p2p_earthquake_service THEN {}
    ELSE {"service_available"}
         \cup (IF get_service_status.is_monitoring
               THEN {"websocket_monitoring"} ELSE {})
         \cup (IF get_service_status.websocket_connected
               THEN {"websocket_connected"} ELSE {})

\* A route handler from its call to its first await, or to its return
\* when it awaits nothing.
RouteBegin ==
    /\ running = 0
    /\ route.st = "called"
    /\ LET name == route.name
           answer(list, origin, source) ==
              [route EXCEPT !.st = "returned", !.status = 200,
                            !.list = list, !.origin = origin,
                            !.source = source]
       IN IF name = StatusRoute
          THEN /\ route' = [route EXCEPT !.st = "returned", !.status = 200,
                                          !.flags = StatusFlags]
               /\ UNCHANGED session
          ELSE IF ~p2p_earthquake_service
          THEN /\ route' = Unavailable(route)
               /\ UNCHANGED session
          ELSE IF name = "get_p2p_latest_tsunamis"
          THEN /\ route' = answer(get_latest_tsunamis(route.limit), "cache",
                                  "P2P WebSocket API")
               /\ UNCHANGED session
          ELSE IF name = "get_p2p_latest_eew"
          THEN /\ route' = answer(get_latest_eew(route.limit), "cache",
                                  "P2P WebSocket API")
               /\ UNCHANGED session
          ELSE IF /\ name = "get_p2p_latest_earthquakes"
                  /\ get_latest_earthquakes(route.limit) # <<>>
          THEN /\ route' = answer(get_latest_earthquakes(route.limit),
                                  "cache", SourceLabel)
               /\ UNCHANGED session
          ELSE \* await of the client method, which opens the session
               /\ route' = [route EXCEPT !.st = "awaiting"]
               /\ session' = TRUE
    /\ UNCHANGED <<is_monitoring, ws_connection, latest_data, data_history,
                   callbacks, nregistered, stopRequested, pc, cur, idx, running, connOpen,
                   inbox, nframes, cleanupPc, naccepted, invoked, lastOutcome>>
    /\ UNCHANGED <<now, last_request_time, hpc, hwake, nrequests, reqLog,
                   overlapped, lastCall, quakeEntry, p2p_earthquake_service, wsVars, schedVars>>

\* The awaited client method returns and the handler builds its answer.
RouteResume ==
    /\ running = 0
    /\ route.st = "awaiting"
    /\ LET m == ClientMethodOf(route.name)
           out == MethodOutcome(m, route.resp)
           done(status) == [route EXCEPT !.st = "returned", !.status = status]
       IN route' =
             IF out.raised
             THEN done(500)
             ELSE IF route.name \in ByIdRoutes
             THEN IF out.item = NoMsg
                  THEN done(404)
                  ELSE [done(200) EXCEPT !.item = out.item, !.origin = "http"]
             ELSE IF route.name = "get_p2p_latest_earthquakes"
             THEN [done(200) EXCEPT !.list = out.list, !.origin = "http",
                                    !.source = SourceLabel]
             ELSE [done(200) EXCEPT !.list = out.list, !.origin = "http"]
    /\ UNCHANGED monitorVars
    /\ UNCHANGED <<now, last_request_time, hpc, hwake, nrequests, reqLog,
                   overlapped, lastCall, quakeEntry, p2p_earthquake_service, wsVars, schedVars>>

\* The monitor as lifespan starts it when it has built the service
\* (main.py:399, 434), with no handler registered, and the route.
ApiNext ==
    \/ p2p_earthquake_service /\ Start(1)
    \/ \E l \in Loops : LoopBegin(l)
    \/ \E l \in Loops : ConnectOk(l)
    \/ \E f \in FramePayloads : FeedSend(f)
    \/ \E l \in Loops : RecvFrame(l)
    \/ \E l \in Loops : DispatchStep(l)
    \/ RouteBegin
    \/ RouteResume

\* lifespan built the service or failed to (main.py:399-440), and one
\* request arrives at some moment of the monitor's run.
ApiInit ==
    /\ MonitorInit /\ LimiterInit /\ WsInit /\ SchedulerInit /\ now = 0
    /\ lastCall = NoCall /\ quakeEntry = NoEntry
    /\ p2p_earthquake_service \in BOOLEAN
    /\ route \in RouteCalls

ApiSpec == ApiInit /\ [][ApiNext]_vars

\* ------------------------------------------------------- specifications

Next ==
    \/ Start(1)
    \/ \E l \in Loops : LoopBegin(l)
    \/ \E l \in Loops : ConnectOk(l)
    \/ \E l \in Loops : ConnectFail(l)
    \/ \E f \in FramePayloads : FeedSend(f)
    \/ \E l \in Loops : ConnectionDrop(l)
    \/ \E l \in Loops : RecvFrame(l)
    \/ \E l \in Loops : DispatchStep(l)
    \/ \E l \in Loops : HandlerReturn(l)
    \/ \E l \in Loops : ListenEnds(l)
    \/ \E l \in Loops : CloseDone(l)
    \/ \E l \in Loops : Wake(l)
    \/ stop_websocket_monitoring
    \/ \E r \in Registrations : register_callback(r[1], r[2])
    \/ CleanupBegin
    \/ CleanupEnd

\* The service as main.py drives it: handlers registered, the monitor started
\* once (lifespan, main.py:428-434), stopped and cleaned up at shutdown
\* (main.py:521-523).
Spec == Init /\ [][Next]_vars

\* What the monitor coroutine l does by itself once the event loop
\* schedules it; the feed, the network and the callers of the service are
\* under no obligation to act.
LoopStep(l) ==
    \/ LoopBegin(l)
    \/ ConnectOk(l) \/ ConnectFail(l)
    \/ RecvFrame(l)
    \/ DispatchStep(l)
    \/ HandlerReturn(l)
    \/ ListenEnds(l)
    \/ CloseDone(l)
    \/ Wake(l)

\* The event loop runs every coroutine that is ready.
FairSpec ==
    /\ Spec
    /\ \A l \in Loops : WF_vars(LoopStep(l))
    /\ WF_vars(CleanupEnd)

\* The steps of the monitor coroutine l that do not depend on a handler
\* coming back.
LoopStepOwn(l) ==
    \/ LoopBegin(l)
    \/ ConnectOk(l) \/ ConnectFail(l)
    \/ RecvFrame(l)
    \/ DispatchStep(l)
    \/ ListenEnds(l)
    \/ CloseDone(l)
    \/ Wake(l)

\* The event loop runs every coroutine that is ready, but an awaited
\* handler (line 301) is under no obligation to return.
HangSpec ==
    /\ Spec
    /\ \A l \in Loops : WF_vars(LoopStepOwn(l))
    /\ WF_vars(CleanupEnd)

\* start_websocket_monitoring has no guard against a second call: the same
\* loop code under any sequence of start and stop calls.
NextRestart ==
    \/ \E l \in Loops : Start(l)
    \/ \E l \in Loops : LoopBegin(l)
    \/ \E l \in Loops : ConnectOk(l)
    \/ \E l \in Loops : ConnectFail(l)
    \/ \E f \in FramePayloads : FeedSend(f)
    \/ \E l \in Loops : ConnectionDrop(l)
    \/ \E l \in Loops : RecvFrame(l)
    \/ \E l \in Loops : DispatchStep(l)
    \/ \E l \in Loops : ListenEnds(l)
    \/ \E l \in Loops : CloseDone(l)
    \/ \E l \in Loops : Wake(l)
    \/ stop_websocket_monitoring

SpecRestart == Init /\ [][NextRestart]_vars

\* The frames that parse to a message.
ValidFrames == {f \in FramePayloads : ParseResponseData(f) # NoMsg}

\* One call of each operation of the service that a route makes: the five
\* client methods with a response that carries one message, the three
\* get_latest_* queries and get_service_status.
ServiceCalls ==
    {c \in RouteCalls :
        /\ c.limit <= 1
        /\ c.resp.exc = "none"
        /\ c.resp.status \in {0, 200}
        /\ c.resp.status = 200 => Len(c.resp.body) = 1}

\* Every operation of the service next to a running monitor: the routes
\* (client methods, facade queries, status), register_callback, stop and
\* cleanup.
ServiceNext ==
    \/ Start(1)
    \/ \E l \in Loops : LoopBegin(l)
    \/ \E l \in Loops : ConnectOk(l)
    \/ \E f \in ValidFrames : FeedSend(f)
    \/ \E l \in Loops : RecvFrame(l)
    \/ \E l \in Loops : DispatchStep(l)
    \/ \E l \in Loops : ListenEnds(l)
    \/ \E l \in Loops : CloseDone(l)
    \/ stop_websocket_monitoring
    \/ register_callback(JMA_QUAKE, "hSync")
    \/ CleanupBegin
    \/ CleanupEnd
    \/ RouteBegin
    \/ RouteResume

ServiceInit ==
    /\ MonitorInit /\ LimiterInit /\ WsInit /\ SchedulerInit /\ now = 0
    /\ lastCall = NoCall /\ quakeEntry = NoEntry
    /\ p2p_earthquake_service = TRUE
    /\ route \in ServiceCalls

ServiceSpec == ServiceInit /\ [][ServiceNext]_vars

\* ------------------------------------------- stop calls, with a record

\* Start(l), recording that no stop has followed this start yet.
StartRecorded(l) ==
    /\ running = 0
    /\ pc[l] = "NotStarted"
    /\ \A k \in Loops : k < l => pc[k] # "NotStarted"
    /\ pc' = [pc EXCEPT ![l] = "Created"]
    /\ stopRequested' = FALSE
    /\ UNCHANGED <<is_monitoring, ws_connection, latest_data, data_history,
                   callbacks, nregistered, session, cur, idx, running,
                   connOpen, inbox, nframes, cleanupPc, naccepted, invoked,
                   lastOutcome>>
    /\ UNCHANGED httpVars

\* stop_websocket_monitoring, recording the call.
StopRecorded ==
    /\ running = 0
    /\ is_monitoring' = FALSE
    /\ stopRequested' = TRUE
    /\ UNCHANGED <<ws_connection, latest_data, data_history, callbacks,
                   nregistered, session, pc, cur, idx, running, connOpen,
                   inbox, nframes, cleanupPc, naccepted, invoked, lastOutcome>>
    /\ UNCHANGED httpVars

\* The monitor started once and stopped at any moment after the start,
\* with handlers registered and frames arriving before and after the stop.
StopNext ==
    \/ StartRecorded(1)
    \/ \E l \in Loops : LoopBegin(l)
    \/ \E l \in Loops : ConnectOk(l)
    \/ \E f \in ValidFrames : FeedSend(f)
    \/ \E l \in Loops : RecvFrame(l)
    \/ \E l \in Loops : DispatchStep(l)
    \/ \E l \in Loops : HandlerReturn(l)
    \/ \E l \in Loops : CloseDone(l)
    \/ \E r \in Registrations : register_callback(r[1], r[2])
    \/ StopRecorded

StopSpec == Init /\ [][StopNext]_vars

\* ------------------------------------------- /ws clients and broadcasts

\* The rest of the state, which the /ws endpoint and the broadcast leave
\* alone.
NotWs == <<monitorVars, now, last_request_time, hpc, hwake, nrequests, reqLog,
           overlapped, lastCall, quakeEntry, p2p_earthquake_service, route,
           schedVars>>

\* list.remove(x) for an x that occurs once
Remove(seq, x) == SelectSeq(seq, LAMBDA y : y # x)

\* websocket_endpoint, main.py:777-778: accept, then append.
ClientConnect(c) ==
    /\ wsState[c] = "new"
    /\ \A d \in Clients : d < c => wsState[d] # "new"
    /\ wsState' = [wsState EXCEPT ![c] = "open"]
    /\ connected_websockets' = Append(connected_websockets, c)
    /\ UNCHANGED <<bpc, bidx, bcur, disconnected, attempted, stayed>>
    /\ UNCHANGED NotWs

\* The client goes away: its endpoint has not noticed yet.
ClientDrop(c) ==
    /\ wsState[c] = "open"
    /\ wsState' = [wsState EXCEPT ![c] = "dropped"]
    /\ UNCHANGED <<connected_websockets, bpc, bidx, bcur, disconnected,
                   attempted, stayed>>
    /\ UNCHANGED NotWs

\* websocket_endpoint, main.py:836-854: receive_text raises
\* WebSocketDisconnect and the finally clause removes the client.
EndpointCleanup(c) ==
    /\ wsState[c] = "dropped"
    /\ wsState' = [wsState EXCEPT ![c] = "closed"]
    /\ connected_websockets' = Remove(connected_websockets, c)
    /\ stayed' = stayed \ {c}
    /\ UNCHANGED <<bpc, bidx, bcur, disconnected, attempted>>
    /\ UNCHANGED NotWs

\* The list iterator of line 863 reads the list itself at each step:
\* next() returns the element at its index, if there is one, and advances
\* the index.
IterHasNext(seq, i) == i <= Len(seq)

\* broadcast_to_websockets, main.py:859-865: up to the first send.
BroadcastBegin ==
    /\ bpc = "idle"
    /\ disconnected' = <<>>
    /\ attempted' = {}
    /\ IF connected_websockets = <<>>
       THEN /\ bpc' = "done"
            /\ stayed' = {}
            /\ UNCHANGED <<bidx, bcur>>
       ELSE /\ bpc' = "sending"
            /\ bcur' = connected_websockets[1]
            /\ bidx' = 2
            /\ stayed' = {connected_websockets[i] :
                             i \in 1..Len(connected_websockets)}
    /\ UNCHANGED <<connected_websockets, wsState>>
    /\ UNCHANGED NotWs

\* main.py:865-873: the send returns, or raises when the client is gone;
\* the loop takes the next client or, when the iterator is exhausted,
\* removes the clients whose send failed.
BroadcastSendDone ==
    /\ bpc = "sending"
    /\ LET failed == wsState[bcur] # "open"
           disc == IF failed THEN Append(disconnected, bcur) ELSE disconnected
       IN /\ attempted' = attempted \cup {bcur}
          /\ IF IterHasNext(connected_websockets, bidx)
             THEN /\ bcur' = connected_websockets[bidx]
                  /\ bidx' = bidx + 1
                  /\ disconnected' = disc
                  /\ UNCHANGED <<bpc, connected_websockets>>
             ELSE /\ bpc' = "done"
                  /\ bcur' = 0
                  /\ bidx' = 0
                  /\ disconnected' = disc
                  /\ connected_websockets' =
                        SelectSeq(connected_websockets,
                                  LAMBDA y : \A i \in 1..Len(disc) : disc[i] # y)
    /\ UNCHANGED <<wsState, stayed>>
    /\ UNCHANGED NotWs

BroadcastNext ==
    \/ \E c \in Clients : ClientConnect(c)
    \/ \E c \in Clients : ClientDrop(c)
    \/ \E c \in Clients : EndpointCleanup(c)
    \/ BroadcastBegin
    \/ BroadcastSendDone

\* One broadcast among clients that connect and disconnect.
BroadcastSpec == Init /\ [][BroadcastNext]_vars

\* ------------------------------------------------------ AMeDASScheduler

\* The rest of the state, which the scheduler leaves alone.
NotSched == <<monitorVars, now, last_request_time, hpc, hwake, nrequests,
              reqLog, overlapped, lastCall, quakeEntry,
              p2p_earthquake_service, route, wsVars>>

\* The update_loop tasks that have been created and have not ended.
AliveTasks == {t \in Tasks : tpc[t] \notin {"none", "done"}}

\* start, lines 174-181: no await, so the call is one step.  The task is
\* created; its body has not run yet.
SchedStart ==
    /\ schedStopped' = FALSE
    /\ IF sched_running
       THEN UNCHANGED <<sched_task, tpc>>
       ELSE \E t \in Tasks :
               /\ tpc[t] = "none"
               /\ \A u \in Tasks : u < t => tpc[u] # "none"
               /\ sched_task' = t
               /\ tpc' = [tpc EXCEPT ![t] = "created"]
    /\ UNCHANGED <<sched_running, nupdates, lateFetch>>
    /\ UNCHANGED NotSched

\* update_loop, lines 128-136: the task runs for the first time, sets the
\* flag and awaits the initial fetch_and_store.
TaskBegin(t) ==
    /\ tpc[t] = "created"
    /\ nupdates < MaxUpdates
    /\ sched_running' = TRUE
    /\ tpc' = [tpc EXCEPT ![t] = "fetching"]
    /\ nupdates' = nupdates + 1
    /\ lateFetch' = (lateFetch \/ schedStopped)
    /\ UNCHANGED <<sched_task, schedStopped>>
    /\ UNCHANGED NotSched

\* Lines 136-148, 153-163: fetch_and_store returns (it catches its own
\* errors) and the while test follows: sleep, or leave the loop.
TaskFetchDone(t) ==
    /\ tpc[t] = "fetching"
    /\ tpc' = [tpc EXCEPT ![t] = IF sched_running THEN "sleeping" ELSE "done"]
    /\ UNCHANGED <<sched_running, sched_task, nupdates, schedStopped,
                   lateFetch>>
    /\ UNCHANGED NotSched

\* Lines 148-153: the sleep ends and the next fetch_and_store begins.
TaskWake(t) ==
    /\ tpc[t] = "sleeping"
    /\ nupdates < MaxUpdates
    /\ tpc' = [tpc EXCEPT ![t] = "fetching"]
    /\ nupdates' = nupdates + 1
    /\ lateFetch' = (lateFetch \/ schedStopped)
    /\ UNCHANGED <<sched_running, sched_task, schedStopped>>
    /\ UNCHANGED NotSched

\* stop, lines 183-199: nothing when the flag is not set; otherwise the
\* flag is cleared and self.task is cancelled and awaited.  The cancelled
\* task gets CancelledError at its await (or before its first step) and
\* ends without starting anything.
SchedStop ==
    /\ schedStopped' = TRUE
    /\ IF ~sched_running
       THEN UNCHANGED <<sched_running, tpc>>
       ELSE /\ sched_running' = FALSE
            /\ tpc' = IF sched_task # 0 /\ tpc[sched_task] # "none"
                       THEN [tpc EXCEPT ![sched_task] = "done"]
                       ELSE tpc
    /\ UNCHANGED <<sched_task, nupdates, lateFetch>>
    /\ UNCHANGED NotSched

SchedNext ==
    \/ SchedStart
    \/ \E t \in Tasks : TaskBegin(t)
    \/ \E t \in Tasks : TaskFetchDone(t)
    \/ \E t \in Tasks : TaskWake(t)
    \/ SchedStop

\* The scheduler under any sequence of start and stop calls.
SchedSpec == Init /\ [][SchedNext]_vars

\* ================================================================ claims

\* The frame loop l reads in this step, and the step that reads it.
FrameRead(l) == Head(inbox[l])
Consumes(l) ==
    /\ running = 0
    /\ pc[l] = "Listening"
    /\ inbox[l] # <<>>
    /\ inbox'[l] = Tail(inbox[l])

\* The message a well-formed frame stands for.
MessageOf(f) == [code |-> f.code, id |-> f.id, cancelled |-> f.cancelled]

\* C1: data_history holds at most 1000 (HistoryCap) entries in every state
\* another coroutine can observe, whatever frames, connection losses,
\* reconnects and start/stop calls came before.
C1_HistoryBounded == Len(data_history) <= HistoryCap

\* The cap was reached and an entry evicted, with two loops started.
C1_Witness ==
    /\ Len(data_history) = HistoryCap
    /\ naccepted > HistoryCap
    /\ \A l \in Loops : pc[l] # "NotStarted"

\* C2: the history is the last min(n, 1000) accepted messages in the order
\* of acceptance: the only change it ever undergoes is the append of the
\* message just accepted, which evicts the oldest entry, and no other, when
\* the history is full; messages sharing an id are both kept.
C2_FifoAppendOnly ==
    [][(data_history' # data_history \/ naccepted' # naccepted) =>
          \E l \in Loops :
             /\ Consumes(l)
             /\ naccepted' = naccepted + 1
             /\ data_history' =
                   IF Len(data_history) < HistoryCap
                   THEN Append(data_history, MessageOf(FrameRead(l)))
                   ELSE Append(Tail(data_history), MessageOf(FrameRead(l)))]_vars

\* The oldest entry was evicted and the history holds a tsunami forecast
\* and its cancellation, which share their id.
C2_Witness ==
    /\ naccepted > HistoryCap
    /\ Len(data_history) = HistoryCap
    /\ \E i, j \in 1..Len(data_history) :
          /\ i < j
          /\ data_history[i].id = data_history[j].id
          /\ ~data_history[i].cancelled
          /\ data_history[j].cancelled

\* A decoded frame the parser has no variant for: unknown or missing code,
\* or a payload that does not match the schema of its code.
Unparseable(f) ==
    /\ f.json
    /\ \/ f.code \notin {551, 552, 554, 555, 556, 561, 9611}
       \/ ~(RequiredFields(f.code) \subseteq f.fields)

\* C3: for a frame with an unknown or missing code, or with a payload that
\* does not match the schema of its code, _parse_response_data returns None
\* and the frame changes neither latest_data nor data_history and starts no
\* handler.
C3_UnparseableDropped ==
    [][\A l \in Loops :
          (Consumes(l) /\ is_monitoring /\ Unparseable(FrameRead(l))) =>
             /\ ParseResponseData(FrameRead(l)) = NoMsg
             /\ latest_data' = latest_data
             /\ data_history' = data_history
             /\ naccepted' = naccepted
             /\ invoked' = invoked
             /\ pc'[l] = "Listening"
             /\ running' = 0]_vars

\* An unparseable frame was read while a handler was registered.
C3_Witness ==
    /\ lastOutcome = "unparseable"
    /\ callbacks[JMA_QUAKE] # <<>>
    /\ naccepted >= 1

\* Loop l has gone through the whole handler list of the message it
\* dispatches.
DispatchDone(l) ==
    /\ pc[l] = "Dispatch"
    /\ idx[l] > Len(callbacks[cur[l].code])

\* C4: when a handler raises while invoked for a message, every handler
\* registered after it for the code of the message is still invoked, with
\* the same message.
C4_RaiseDoesNotStopLater ==
    \A l \in Loops :
       DispatchDone(l) =>
          \A i \in 1..Len(invoked[l]) :
             invoked[l][i].outcome = "raise" =>
                \A j \in (invoked[l][i].pos + 1)..Len(callbacks[cur[l].code]) :
                   \E k \in (i + 1)..Len(invoked[l]) :
                      /\ invoked[l][k].pos = j
                      /\ invoked[l][k].h = callbacks[cur[l].code][j]
                      /\ invoked[l][k].m = cur[l]

\* The coroutine handler raised and the plain handler registered after it
\* ran all the same.
C4_Witness ==
    \E l \in Loops :
       /\ DispatchDone(l)
       /\ Len(invoked[l]) = 2
       /\ invoked[l][1].h = "hAsync"
       /\ invoked[l][1].outcome = "raise"
       /\ invoked[l][2].h = "hSync"

\* C5: in a dispatch the handlers registered for the code of the message
\* are invoked one at a time, in registration order, each once, and no
\* other handler is invoked; no handler runs outside a dispatch.
C5_RegistrationOrder ==
    \A l \in Loops :
       IF pc[l] \in {"Dispatch", "InHandler"}
       THEN /\ Len(invoked[l]) = idx[l] - 1
            /\ idx[l] <= Len(callbacks[cur[l].code]) + 1
            /\ \A i \in 1..Len(invoked[l]) :
                  /\ invoked[l][i].pos = i
                  /\ invoked[l][i].h = callbacks[cur[l].code][i]
                  /\ invoked[l][i].m = cur[l]
            /\ pc[l] = "InHandler" => idx[l] <= Len(callbacks[cur[l].code])
       ELSE invoked[l] = <<>>

\* A dispatch went through a list of two different handlers, both invoked.
C5_Witness ==
    \E l \in Loops :
       /\ DispatchDone(l)
       /\ callbacks[cur[l].code] = <<"hSync", "hAsync">>
       /\ Len(invoked[l]) = 2

\* C6: while is_monitoring is true, a loss of the connection (or a failed
\* connection attempt) takes the loop to the backoff sleep and nowhere
\* else; the sleep is followed by a connection attempt; an attempt is made
\* only by a loop that has just started or just slept; none of these steps
\* touches data_history or latest_data; and a valid frame read afterwards
\* is appended to the history and becomes the latest of its code.
C6_ReconnectAfterBackoff ==
    [][\A l \in Loops :
          /\ (is_monitoring /\ pc[l] = "Listening"
                /\ pc'[l] \notin {"Listening", "Dispatch"}) =>
                (pc'[l] = "Sleeping" /\ data_history' = data_history
                    /\ latest_data' = latest_data)
          /\ (is_monitoring /\ pc[l] = "Connecting"
                /\ pc'[l] \notin {"Connecting", "Listening"}) =>
                pc'[l] = "Sleeping"
          /\ (is_monitoring /\ pc[l] = "Sleeping" /\ pc'[l] # "Sleeping") =>
                (pc'[l] = "Connecting" /\ data_history' = data_history
                    /\ latest_data' = latest_data)
          /\ (pc'[l] = "Sleeping" /\ pc[l] # "Sleeping") =>
                pc[l] \in {"Listening", "Connecting", "Closing"}
          /\ (pc'[l] = "Connecting" /\ pc[l] # "Connecting") =>
                pc[l] \in {"Created", "Sleeping"}
          /\ (pc[l] = "Connecting" /\ pc'[l] = "Listening") =>
                (data_history' = data_history /\ latest_data' = latest_data)
          /\ (Consumes(l) /\ is_monitoring /\ FrameRead(l).json
                /\ ~Unparseable(FrameRead(l))) =>
                /\ data_history' # <<>>
                /\ data_history'[Len(data_history')] = MessageOf(FrameRead(l))
                /\ latest_data'[FrameRead(l).code] = MessageOf(FrameRead(l))
                /\ \A i \in 1..(Len(data_history') - 1) :
                      \E j \in 1..Len(data_history) :
                         data_history'[i] = data_history[j]]_vars

\* The connection was lost while monitoring, the loop slept and connected
\* again, and the first valid frame of the new connection was stored after
\* a message stored before the loss.
C6_Witness ==
    /\ lastOutcome = "stored_after_loss"
    /\ Len(data_history) >= 2
    /\ is_monitoring
    /\ pc[1] = "Dispatch"

\* C7: once stop_websocket_monitoring() has cleared the flag of a running
\* monitor, the loop reaches Stopped and its connection is closed, even if
\* the feed sends nothing more.
C7_StopExits ==
    (~is_monitoring /\ pc[1] \in {"Connecting", "Listening", "Sleeping"})
       ~> (pc[1] = "Stopped" /\ 1 \notin connOpen)

\* The loops that have entered the while loop and not left it.
ActiveLoops ==
    {l \in Loops : pc[l] \notin {"NotStarted", "Created", "Stopped"}}

\* C8: at most one monitor loop is active, and no frame of the feed is
\* stored more than once.
C8_SingleLoop ==
    /\ Cardinality(ActiveLoops) <= 1
    /\ naccepted <= nframes

\* The last min(n, Len(s)) entries of s.
LastN(s, n) ==
    IF n >= Len(s) THEN s ELSE SubSeq(s, Len(s) - n + 1, Len(s))

\* C9: for every limit N >= 0 each get_latest_* query returns the N most
\* recent history entries of its variant (all of them when there are fewer),
\* in insertion order: never more than N items.
C9_LatestAtMostN ==
    \A N \in 0..MaxLimit :
       /\ Len(get_latest_earthquakes(N)) <= N
       /\ get_latest_earthquakes(N) = LastN(SelectSeq(data_history, IsJMAQuake), N)
       /\ Len(get_latest_tsunamis(N)) <= N
       /\ get_latest_tsunamis(N) = LastN(SelectSeq(data_history, IsJMATsunami), N)
       /\ Len(get_latest_eew(N)) <= N
       /\ get_latest_eew(N) = LastN(SelectSeq(data_history, IsEEW), N)

\* C10: when the client calls never overlap, two consecutive requests are
\* at least rate_limit_delay apart on the event-loop clock.
C10_SequentialSpacing ==
    (~overlapped /\ Len(reqLog) = 2) =>
       reqLog[2] - reqLog[1] >= rate_limit_delay

\* Three calls were made one after another and the limiter held the last
\* one back until exactly rate_limit_delay after the one before.
C10_Witness ==
    /\ ~overlapped
    /\ nrequests = MaxRequests
    /\ Len(reqLog) = 2
    /\ reqLog[2] - reqLog[1] = rate_limit_delay

\* C11: whatever the interleaving of the callers, any two requests sent
\* one after the other are at least rate_limit_delay apart.
C11_ConcurrentSpacing ==
    Len(reqLog) = 2 => reqLog[2] - reqLog[1] >= rate_limit_delay

\* An item of a list response that the method can make a message of: for
\* get_history a known code whose schema the item matches, for the other
\* list methods an object with the fields of the method's class.
ItemParses(m, item) ==
    /\ item.json
    /\ IF m = "get_history"
       THEN /\ item.code \in {551, 552, 554, 555, 556, 561, 9611}
            /\ RequiredFields(item.code) \subseteq item.fields
       ELSE RequiredFields(IF m = "get_jma_quakes" THEN 551 ELSE 552)
               \subseteq item.fields

\* The items of a body that parse, as messages, in the order of the body.
ParsedItemsOf(m, body) ==
    LET RECURSIVE Keep(_)
        Keep(b) ==
           IF b = <<>> THEN <<>>
           ELSE IF ItemParses(m, Head(b))
                THEN <<MessageOf(Head(b))>> \o Keep(Tail(b))
                ELSE Keep(Tail(b))
    IN Keep(body)

\* C12: a client method never raises; on a status other than 200 and on an
\* exception of the request or of the decoding of the body it returns an
\* empty list (list methods) or None (by-id methods); on a 200 list response
\* it returns the items that parse, in order, and skips the others.
C12_FailuresDegrade ==
    lastCall.st = "returned" =>
       /\ ~lastCall.raised
       /\ (lastCall.resp.exc # "none" \/ lastCall.resp.status # 200) =>
             (lastCall.list = <<>> /\ lastCall.item = NoMsg)
       /\ (lastCall.resp.exc = "none" /\ lastCall.resp.status = 200
              /\ lastCall.m \in {"get_history", "get_jma_quakes",
                                  "get_jma_tsunamis"}) =>
             lastCall.list = ParsedItemsOf(lastCall.m, lastCall.resp.body)

\* A list method whose request timed out returned an empty list.
C12_Witness ==
    /\ lastCall.st = "returned"
    /\ lastCall.m = "get_jma_quakes"
    /\ lastCall.resp.exc = "timeout"
    /\ lastCall.list = <<>>
    /\ ~lastCall.raised

\* C13: a by-id lookup answered with 404 returns None, does not raise and
\* logs nothing at error level (a warning only); answered with any other
\* status than 200 it returns None as well and logs at error level.
C13_NotFoundIsNotAnError ==
    (lastCall.st = "returned"
        /\ lastCall.m \in {"get_jma_quake_by_id", "get_jma_tsunami_by_id"}
        /\ lastCall.resp.exc = "none"
        /\ lastCall.resp.status # 200) =>
       /\ lastCall.item = NoMsg
       /\ ~lastCall.raised
       /\ IF lastCall.resp.status = 404
          THEN "error" \notin lastCall.logs
                  /\ lastCall.logs \subseteq {"warning", "info"}
          ELSE "error" \in lastCall.logs

\* A lookup by id was answered with 404 and logged a warning.
C13_Witness ==
    /\ lastCall.st = "returned"
    /\ lastCall.m = "get_jma_tsunami_by_id"
    /\ lastCall.resp.status = 404
    /\ lastCall.item = NoMsg
    /\ lastCall.logs = {"warning"}

\* C14: the params of a list method carry the limit clamped to 1..100 and
\* the offset clamped to 0 and above, whatever integers were passed.
C14_ParamsClamped ==
    (lastCall.st = "returned"
        /\ lastCall.m \in {"get_history", "get_jma_quakes", "get_jma_tsunamis"}) =>
       /\ lastCall.params.limit \in 1..100
       /\ lastCall.params.limit =
             (IF lastCall.limit < 1 THEN 1
              ELSE IF lastCall.limit > 100 THEN 100 ELSE lastCall.limit)
       /\ lastCall.params.offset >= 0
       /\ lastCall.params.offset =
             (IF lastCall.offset < 0 THEN 0 ELSE lastCall.offset)

\* A list method called with a zero limit and a negative offset sent
\* limit 1 and offset 0.
C14_Witness ==
    /\ lastCall.st = "returned"
    /\ lastCall.m = "get_history"
    /\ lastCall.limit = 0
    /\ lastCall.offset < 0
    /\ lastCall.params = [limit |-> 1, offset |-> 0]

\* C15: reading a frame that is not valid JSON leaves the loop listening
\* on the same open connection, with the monitor still running and the
\* stored data untouched; a valid frame read on that connection is stored
\* and dispatched.
C15_BadJsonKeepsConnection ==
    [][\A l \in Loops :
          /\ (Consumes(l) /\ is_monitoring /\ ~FrameRead(l).json) =>
                /\ pc'[l] = "Listening"
                /\ connOpen' = connOpen
                /\ ws_connection' = ws_connection
                /\ is_monitoring'
                /\ data_history' = data_history
                /\ latest_data' = latest_data
          /\ (Consumes(l) /\ is_monitoring /\ FrameRead(l).json
                /\ ~Unparseable(FrameRead(l))) =>
                /\ pc'[l] = "Dispatch"
                /\ cur'[l] = MessageOf(FrameRead(l))
                /\ data_history'[Len(data_history')] = MessageOf(FrameRead(l))
                /\ connOpen' = connOpen]_vars

\* A frame that is not JSON was read and the next, valid, frame waits on
\* the same connection, which the loop is still listening on.
C15_Witness ==
    /\ lastOutcome = "decode_error"
    /\ is_monitoring
    /\ pc[1] = "Listening"
    /\ 1 \in connOpen
    /\ inbox[1] # <<>>
    /\ Head(inbox[1]).json
    /\ ~Unparseable(Head(inbox[1]))

\* A handler of the dispatch of loop l has raised.
HandlerRaised(l) ==
    \E i \in 1..Len(invoked[l]) : invoked[l][i].outcome = "raise"

\* C16: once a handler has raised in a dispatch, the message stays the
\* last entry of the history and the latest of its code for the rest of the
\* dispatch, and the loop goes on through the dispatch back to listening on
\* the same connection, with nothing stored or closed on the way.
C16_RaiseKeepsLoop ==
    [][\A l \in Loops :
          (pc[l] \in {"Dispatch", "InHandler"} /\ HandlerRaised(l)) =>
             /\ data_history # <<>>
             /\ data_history[Len(data_history)] = cur[l]
             /\ latest_data[cur[l].code] = cur[l]
             /\ data_history' = data_history
             /\ latest_data' = latest_data
             /\ pc'[l] \in {"Dispatch", "InHandler", "Listening"}
             /\ (pc'[l] # pc[l] \/ idx'[l] # idx[l]) =>
                   (connOpen' = connOpen /\ ws_connection' = ws_connection
                      /\ is_monitoring' = is_monitoring)]_vars

\* A dispatch in which a handler raised has gone through its list, on a
\* connection that is still open.
C16_Witness ==
    /\ DispatchDone(1)
    /\ HandlerRaised(1)
    /\ is_monitoring
    /\ 1 \in connOpen
    /\ data_history[Len(data_history)] = cur[1]

\* C17: a frame of another code that arrives while a handler is awaited is
\* read (stored and dispatched) whether or not that handler ever returns.
C17_OtherCodeNotStalled ==
    (/\ pc[1] = "InHandler"
     /\ is_monitoring
     /\ inbox[1] # <<>>
     /\ Head(inbox[1]).json
     /\ ~Unparseable(Head(inbox[1]))
     /\ Head(inbox[1]).code # cur[1].code)
       ~> (inbox[1] = <<>>)

\* The loops that are inside the "async with" block of a connection.
HoldsConnection ==
    {l \in Loops : pc[l] \in {"Listening", "Dispatch", "InHandler", "Closing"}}

\* C18: websocket_connected is true exactly when the monitor holds an open
\* connection: true only while a loop is inside a connection (not before
\* the first handshake, not during the backoff sleep, not once stopped),
\* and true whenever a loop holds a connection that is open.
C18_ConnectedFlagExact ==
    /\ get_service_status.websocket_connected => HoldsConnection # {}
    /\ (HoldsConnection \cap connOpen # {}) =>
          get_service_status.websocket_connected

\* C19: history_count is the number of messages accepted so far, capped at
\* 1000 (HistoryCap); after exactly one frame, a valid earthquake, it is 1
\* and get_latest_earthquakes(1) returns that one message;
\* registered_callbacks is the number of register_callback calls made.
C19_StatusCounts ==
    /\ get_service_status.history_count =
          (IF naccepted < HistoryCap THEN naccepted ELSE HistoryCap)
    /\ (nframes = 1 /\ naccepted = 1 /\ latest_data[551] # NoMsg) =>
          (/\ get_service_status.history_count = 1
           /\ get_latest_earthquakes(1) = <<latest_data[551]>>)
    /\ get_service_status.registered_callbacks = nregistered

\* One frame was sent, a valid earthquake, and stored; two handlers are
\* registered for its code.
C19_Witness ==
    /\ nframes = 1
    /\ naccepted = 1
    /\ get_latest_earthquakes(1) = <<[code |-> 551, id |-> "q1", cancelled |-> FALSE]>>
    /\ get_service_status.history_count = 1
    /\ Len(callbacks[551]) = 2
    /\ get_service_status.registered_callbacks = 2

\* C20: the intensity label of an earthquake is a lookup of its maxScale in
\* the fixed table 10, 20, 30, 40, 45, 46, 50, 55, 60, 70; every other
\* integer, zero and an absent maxScale give "unknown"; the label the route
\* returns is the one scale_int_to_string gives for the same maxScale.
C20_LabelIsTableLookup ==
    quakeEntry.st = "returned" =>
       LET ms == quakeEntry.maxScale
           label == quakeEntry.maxScaleString
       IN /\ label = scale_int_to_string(ms)
          /\ label =
                IF ~ms.present THEN "unknown"
                ELSE CASE ms.v = 10 -> "1"
                       [] ms.v = 20 -> "2"
                       [] ms.v = 30 -> "3"
                       [] ms.v = 40 -> "4"
                       [] ms.v = 45 -> "5-"
                       [] ms.v = 46 -> "5-*"
                       [] ms.v = 50 -> "5+"
                       [] ms.v = 55 -> "6-"
                       [] ms.v = 60 -> "6+"
                       [] ms.v = 70 -> "7"
                       [] OTHER -> "unknown"

\* The route has rendered an earthquake of the highest intensity.
C20_Witness ==
    /\ quakeEntry.st = "returned"
    /\ quakeEntry.maxScale = SomeScale(70)
    /\ quakeEntry.maxScaleString = "7"

\* C21: each of the three "latest" routes answers from the in-memory
\* history when it holds an entry of the requested variant, and otherwise
\* calls the HTTP client and answers with its result: an answer that did
\* not come from the client is never empty.
C21_LatestFallsBack ==
    (/\ route.st = "returned"
     /\ route.name \in LatestRoutes
     /\ route.status = 200) =>
       IF route.origin = "cache"
       THEN route.list # <<>>
       ELSE route.origin = "http"

\* C22: every data route answers with status 200 and a body, whether the
\* service failed to initialize, the upstream request failed or a by-id
\* lookup found nothing.
C22_DataRoutesNeverFail ==
    (route.st = "returned" /\ route.name \in DataRoutes) =>
       route.status = 200

\* C28: the top-level source label of /api/p2p/earthquakes/latest is the
\* HTTP label exactly when the list came from the HTTP client, and the
\* WebSocket label exactly when it came from the history.
C28_SourceNamesOrigin ==
    (/\ route.st = "returned"
     /\ route.name = "get_p2p_latest_earthquakes"
     /\ route.status = 200) =>
       /\ route.origin = "http" <=> route.source = "P2P HTTP API"
       /\ route.origin = "cache" <=> route.source = "P2P WebSocket API"

\* C23: latest_data and data_history are changed only by the step of the
\* monitor loop that accepts a frame; register_callback, the client
\* methods, the get_latest_* queries, get_service_status,
\* stop_websocket_monitoring and cleanup leave both unchanged.
C23_SingleWriter ==
    [][(latest_data' # latest_data \/ data_history' # data_history) =>
          \E l \in Loops :
             /\ Consumes(l)
             /\ naccepted' = naccepted + 1
             /\ route' = route
             /\ callbacks' = callbacks
             /\ is_monitoring' = is_monitoring
             /\ cleanupPc' = cleanupPc]_vars

\* A client method has returned a message that is not in the history, with
\* the history not empty, a handler registered, and the monitor stopped and
\* cleaned up.
C23_Witness ==
    /\ route.st = "returned"
    /\ route.origin = "http"
    /\ Len(route.list) = 1
    /\ data_history # <<>>
    /\ \A i \in 1..Len(data_history) : data_history[i] # route.list[1]
    /\ latest_data[route.list[1].code] = NoMsg
    /\ nregistered > 0
    /\ ~is_monitoring
    /\ ws_connection = 0
    /\ pc[1] = "Stopped"

\* C24: when stop_websocket_monitoring() is called while the loop sleeps in
\* the reconnect backoff, or while a connection attempt is failing, the
\* loop makes no further connection attempt: with the flag cleared, the
\* end of the sleep and the failure of the attempt both take the loop to
\* Stopped, where it stays (start is called once).
C24_StopDuringBackoff ==
    [][\A l \in Loops :
          ~is_monitoring =>
             /\ pc[l] = "Sleeping" => pc'[l] \in {"Sleeping", "Stopped"}
             /\ (pc[l] = "Connecting" /\ l \notin connOpen') =>
                   pc'[l] \in {"Connecting", "Stopped"}
             /\ pc[l] = "Stopped" =>
                   (pc'[l] = "Stopped" /\ l \notin connOpen')]_vars

\* The loop lost its connection while monitoring and went to the backoff;
\* stop_websocket_monitoring() was called during the sleep.
C24_Witness ==
    /\ pc[1] = "Sleeping"
    /\ lastOutcome = "lost"
    /\ ~is_monitoring
    /\ cleanupPc = "idle"
    /\ ws_connection # 0

\* The codes that are keys of latest_data.
LatestKeys == {c \in DOMAIN latest_data : latest_data[c] # NoMsg}

\* The positions of the history that hold a message of code c.
PositionsOf(c) == {i \in 1..Len(data_history) : data_history[i].code = c}

\* C25: for every key c of latest_data, latest_data[c] is the message of
\* code c accepted last: it carries the code c, the keys are among the seven
\* known codes, a key once set is never removed, accepting a message m sets
\* latest_data[m.code] to m and nothing else does; as long as the history
\* holds a message of code c, its last one is latest_data[c].
C25_LatestIsNewest ==
    /\ [](/\ \A c \in LatestKeys : latest_data[c].code = c
          /\ LatestKeys \subseteq KnownCodes
          /\ Cardinality(LatestKeys) <= 7
          /\ \A c \in DOMAIN latest_data :
                PositionsOf(c) # {} =>
                   /\ c \in LatestKeys
                   /\ \A i \in PositionsOf(c) :
                         (\A j \in PositionsOf(c) : j <= i) =>
                            data_history[i] = latest_data[c])
    /\ [][IF naccepted' # naccepted
          THEN \E l \in Loops :
                  /\ Consumes(l)
                  /\ LET m == MessageOf(FrameRead(l))
                     IN latest_data' = [latest_data EXCEPT ![m.code] = m]
          ELSE latest_data' = latest_data]_vars

\* The earthquake accepted first has been evicted from the full history and
\* is still the latest of its code; the cancellation that followed the
\* tsunami forecast is the latest of its.
C25_Witness ==
    /\ running = 0
    /\ Len(data_history) = HistoryCap
    /\ naccepted > HistoryCap
    /\ PositionsOf(JMA_QUAKE) = {}
    /\ latest_data[JMA_QUAKE].id = "q1"
    /\ latest_data[JMA_TSUNAMI].cancelled
    /\ data_history[Len(data_history)] = latest_data[JMA_TSUNAMI]

\* C26: a message is stored before it is dispatched: while the loop runs
\* the handlers of message m, from the first invocation until the last
\* handler has returned, m is latest_data[m.code] and the last entry of
\* data_history, and every handler invoked so far got m: no later frame
\* is stored in the meantime (start is called once).
C26_StoredBeforeDispatch ==
    \A l \in Loops :
       pc[l] \in {"Dispatch", "InHandler"} =>
          /\ cur[l] # NoMsg
          /\ latest_data[cur[l].code] = cur[l]
          /\ data_history # <<>>
          /\ data_history[Len(data_history)] = cur[l]
          /\ \A i \in 1..Len(invoked[l]) : invoked[l][i].m = cur[l]

\* The second handler of an earthquake is running, the first has returned,
\* and the next frame waits unread on the connection.
C26_Witness ==
    /\ pc[1] = "InHandler"
    /\ idx[1] = 2
    /\ Len(invoked[1]) = 1
    /\ cur[1].code = JMA_QUAKE
    /\ inbox[1] # <<>>
    /\ Len(data_history) = HistoryCap

\* C27: once stop_websocket_monitoring() has been called, and start not
\* again, no frame is appended to data_history, written to latest_data or
\* given to a handler; the only handlers still invoked are those of the
\* message whose dispatch was in progress when stop was called.
C27_NothingStoredAfterStop ==
    [][stopRequested =>
          /\ data_history' = data_history
          /\ latest_data' = latest_data
          /\ \A l \in Loops :
                /\ cur'[l] \in {cur[l], NoMsg}
                /\ Len(invoked'[l]) > Len(invoked[l]) =>
                      invoked'[l][Len(invoked'[l])].m = cur[l]]_vars

\* C29: a broadcast attempts a send to every client that is in
\* connected_websockets for the whole duration of the broadcast, also when
\* other clients connect or disconnect while it is suspended in a send,
\* and it removes from the list only clients whose send failed.
C29_BroadcastReachesAll ==
    bpc = "done" =>
       /\ stayed \subseteq attempted
       /\ \A c \in stayed :
             wsState[c] = "open" =>
                \E i \in 1..Len(connected_websockets) :
                   connected_websockets[i] = c

\* C30: AMeDASScheduler never has more than one update loop task alive,
\* and once stop() has been called after start(), also before the loop
\* task has first run, no fetch_and_store begins.
C30_OneLoopAndStopCancels ==
    /\ Cardinality(AliveTasks) <= 1
    /\ ~lateFetch

====
